---- MODULE Spec2Model ----
(***************************************************************************)
(* A model of the conversation archiver: the page pipeline of              *)
(* pdf_engine.py (create_pdf_page, merge_pdfs, markdown_to_html_final) and *)
(* the caller of app.py (MainWindow, PdfWorker, ImageDropWidget).          *)
(*                                                                         *)
(* The file system is the shared state.  A PDF file's content is the       *)
(* sequence of its pages, or Corrupt when no reader can parse it; a page   *)
(* is <<n, k>>: the k-th page rendered from the HTML of invocation n       *)
(* (<<0, 1>> is a page the archive held before the program started).       *)
(***************************************************************************)
EXTENDS Integers, Sequences, FiniteSets, TLC

\* ------------------------------------------------------------- bounds
MaxInvocations == 2
MaxTempImages == 1
MaxPageImages == 2
MaxLines == 4
LongDocBlocks == 11

\* ---------------------------------------------------------- constants
\* A file's content: no file, bytes no PDF reader can parse, a PDF's pages.
Absent == [kind |-> "absent"]
Corrupt == [kind |-> "corrupt"]
Pdf(pages) == [kind |-> "pdf", pages |-> pages]
NoFileSelected == "No file selected..."
SuccessMessage == "Success! Page added."
CreateErrorMessage == "Error: Failed to create the temporary PDF page."
MergeErrorMessage == "Error: Failed to merge the new page into the main PDF."

Texts == {"", "Hello"}
DefaultUserHeading == "User Message"
DefaultModelHeading == "Model Response"

Invocations == 1..MaxInvocations

VARIABLES
    fs,                \* path -> content: "archive", "html", "engine_page", "cwd_page"
    disk_images,       \* the temp image files that exist on disk
    cwd_is_engine_dir, \* whether the process's working directory is the engine's
    pdf_path_label,    \* MainWindow.pdf_path_label
    add_button,        \* MainWindow.add_button.isEnabled()
    show_headings_check, user_heading_entry, model_heading_entry,
    items,             \* ImageDropWidget's items (their Qt.UserRole paths)
    temp_files,        \* ImageDropWidget.temp_files, shared with every worker
    created_images,    \* how many temp image files tempfile has handed out
    started,           \* how many invocations were started
    workers,           \* invocation -> the PdfWorker and its thread
    finished_queue,    \* finished signals queued for the UI thread
    handled,           \* invocation -> how many finished signals the UI thread handled
    md                 \* the markdown renderer's input and output

vars == <<fs, disk_images, cwd_is_engine_dir, pdf_path_label, add_button,
          show_headings_check, user_heading_entry,
          model_heading_entry, items, temp_files, created_images, started,
          workers, finished_queue, handled, md>>

uiOptions == <<show_headings_check, user_heading_entry, model_heading_entry>>

\* ------------------------------------------------------------ helpers
IsPrefix(s, t) == Len(s) <= Len(t) /\ SubSeq(t, 1, Len(s)) = s

Readable(content) == content.kind = "pdf"

\* The pages a reader gets out of a file (none when it cannot be read).
Pages(content) == IF Readable(content) THEN content.pages ELSE <<>>

\* temp_page_path = "_temp_page.pdf" is relative to the working directory.
TempPagePath == IF cwd_is_engine_dir THEN "engine_page" ELSE "cwd_page"

\* if os.path.exists(path): os.remove(path)
RemoveIfExists(f, path) == [f EXCEPT ![path] = Absent]

\* -------------------------------------------------------- Page Composer
\* html.escape on the headings the model draws.
HtmlEscape(heading) == IF heading = "A&B" THEN "A&amp;B" ELSE heading

\* Section, had it not tested show_headings.
SectionNoShowCheck(text, show_headings, heading) ==
    IF text = "" THEN <<>>
    ELSE (IF heading # "" THEN <<[tag |-> "h1", of |-> HtmlEscape(heading)]>> ELSE <<>>)
         \o <<[tag |-> "div", of |-> text]>>

\* One text section of create_pdf_page: "" when the text is empty, else an
\* optional <h1> and the <div class='content'> holding the rendered text.
Section(text, show_headings, heading) ==
    IF text = "" THEN <<>>
    ELSE (IF show_headings /\ heading # ""
          THEN <<[tag |-> "h1", of |-> HtmlEscape(heading)]>> ELSE <<>>)
         \o <<[tag |-> "div", of |-> text]>>

\* The <img> elements, one per path, in the order supplied.
ImageSection(image_paths) ==
    [k \in 1..Len(image_paths) |-> [tag |-> "img", of |-> image_paths[k]]]

\* The elements of <body>, in document order.
ComposeBody(w) ==
    Section(w.user_text, w.show_headings, w.user_heading)
    \o Section(w.model_text, w.show_headings, w.model_heading)
    \o ImageSection(w.image_paths)

\* ------------------------------------------------------------ PdfWorker
IdleWorker ==
    [pc |-> "idle", user_text |-> "", model_text |-> "", image_paths |-> <<>>,
     show_headings |-> TRUE, user_heading |-> "", model_heading |-> "",
     success_create |-> FALSE, success_merge |-> FALSE, writer |-> <<>>, i |-> 1,
     \* history of this invocation, read by the properties only
     emitted |-> "", raster_failed |-> FALSE, rendered |-> FALSE,
     merge_called |-> FALSE, arch0 |-> Absent, pre |-> Absent, newp |-> Absent]

PdfWorker(user_text, model_text, image_paths) ==
    [IdleWorker EXCEPT !.pc = "create", !.user_text = user_text,
                       !.model_text = model_text, !.image_paths = image_paths,
                       !.show_headings = show_headings_check,
                       !.user_heading = user_heading_entry,
                       !.model_heading = model_heading_entry,
                       !.arch0 = fs["archive"]]

\* The files the program finds: the archive the user will pick is absent,
\* unreadable, or holds one page.
InitFiles ==
    /\ fs \in {[archive |-> a, html |-> Absent, engine_page |-> Absent, cwd_page |-> Absent] :
                 a \in {Absent, Corrupt, Pdf(<< <<0, 1>> >>)}}
    /\ cwd_is_engine_dir \in BOOLEAN

\* MainWindow.__init__ and ImageDropWidget.__init__.
InitWindow ==
    /\ pdf_path_label = NoFileSelected
    /\ add_button = TRUE
    /\ show_headings_check = TRUE
    /\ user_heading_entry = DefaultUserHeading
    /\ model_heading_entry = DefaultModelHeading
    /\ items = <<>>
    /\ temp_files = <<>>
    /\ finished_queue = <<>>
    /\ handled = [n \in Invocations |-> 0]

NoMarkdown == [input |-> <<>>, output |-> <<>>, done |-> FALSE]

Init ==
    /\ InitFiles
    /\ InitWindow
    /\ disk_images = {}
    /\ created_images = 0
    /\ started = 0
    /\ workers = [n \in Invocations |-> IdleWorker]
    /\ md = NoMarkdown

\* ------------------------------------------------------------ MainWindow
choose_file ==
    /\ pdf_path_label = NoFileSelected
    /\ pdf_path_label' = "archive"
    /\ UNCHANGED <<fs, disk_images, cwd_is_engine_dir, add_button, uiOptions,
                   items, temp_files, created_images, started, workers,
                   finished_queue, handled, md>>

\* process_and_add_pdf, had it left the button alone.
ButtonStaysEnabled == TRUE

\* The Add button's state once process_and_add_pdf has started a worker.
ButtonWhileProcessing == FALSE

process_and_add_pdf(user_text, model_text) ==
    /\ add_button
    /\ started < MaxInvocations
    /\ ~(user_text = "" /\ model_text = "")
    /\ pdf_path_label # NoFileSelected
    /\ add_button' = ButtonWhileProcessing
    /\ started' = started + 1
    /\ workers' = [workers EXCEPT ![started + 1] = PdfWorker(user_text, model_text, items)]
    /\ UNCHANGED <<fs, disk_images, cwd_is_engine_dir, pdf_path_label, uiOptions,
                   items, temp_files, created_images, finished_queue, handled, md>>

IsError(message) == message \in {CreateErrorMessage, MergeErrorMessage}

\* Once the UI has handled a worker's outcome, nothing reads the worker's
\* fields again: its record keeps only where its thread is.
Retired(w) == [IdleWorker EXCEPT !.pc = w.pc, !.i = w.i]

\* on_processing_finished, had it not enabled the button again.
ButtonStaysDisabled == FALSE

\* The Add button's state when on_processing_finished returns.
ButtonAfterFinished == TRUE

on_processing_finished ==
    /\ finished_queue # <<>>
    /\ LET m == Head(finished_queue) IN
       /\ IF IsError(m.message)
          THEN UNCHANGED <<items, temp_files>>
          ELSE /\ items' = <<>>
               /\ temp_files' = <<>>
       /\ handled' = [handled EXCEPT ![m.inv] = @ + 1]
       /\ workers' = [workers EXCEPT ![m.inv] = Retired(@)]
    /\ add_button' = ButtonAfterFinished
    /\ finished_queue' = Tail(finished_queue)
    /\ UNCHANGED <<fs, disk_images, cwd_is_engine_dir, pdf_path_label, uiOptions,
                   created_images, started, md>>

\* ------------------------------------------------------- ImageDropWidget
\* keyPressEvent (paste) or dropEvent with image data: a fresh temp file is
\* written, shown as an item and remembered in temp_files.
paste_image ==
    /\ created_images < MaxTempImages
    /\ LET name == created_images + 1 IN
       /\ created_images' = name
       /\ disk_images' = disk_images \cup {name}
       /\ items' = Append(items, name)
       /\ temp_files' = Append(temp_files, name)
    /\ UNCHANGED <<fs, cwd_is_engine_dir, pdf_path_label, add_button, uiOptions,
                   started, workers, finished_queue, handled, md>>

\* ------------------------------------------------------ create_pdf_page
uiState == <<pdf_path_label, add_button, uiOptions, items, temp_files,
             created_images, started, handled>>

\* create_pdf_page returns: its arguments are read by no later step, so the
\* worker's record stops carrying them.
CreateReturns(w, ok) ==
    [w EXCEPT !.pc = "created", !.success_create = ok, !.user_text = "",
              !.model_text = "", !.image_paths = <<>>]

\* create_pdf_page, had it no finally block.
CreateFinallyKeepsHtml(f) == f

\* The finally block of create_pdf_page.
CreateFinally(f) == RemoveIfExists(f, "html")

\* create_pdf_page up to the point where _temp.html is written: the
\* stylesheet and every image are read, the document is composed.
CreateCompose(n, css_ok) ==
    LET w == workers[n]
        images_ok == \A k \in 1..Len(w.image_paths) : w.image_paths[k] \in disk_images
    IN
    /\ w.pc = "create"
    /\ IF css_ok /\ images_ok
       THEN /\ fs' = [fs EXCEPT !["html"] = [kind |-> "html", inv |-> n, body |-> ComposeBody(w)]]
            /\ workers' = [workers EXCEPT ![n].pc = "raster"]
       ELSE /\ fs' = CreateFinally(fs)
            /\ workers' = [workers EXCEPT ![n] = CreateReturns(w, FALSE)]
    /\ UNCHANGED <<disk_images, cwd_is_engine_dir, uiState, finished_queue, md>>

\* What the external rasterizer can do: the executable is missing; it exits
\* non-zero before or after writing _temp_page.pdf; it exits zero having
\* written nothing, a page, or a file no PDF reader can parse.
RasterOutcomes == {"missing", "fail", "fail_after_write", "ok_no_output", "ok", "ok_corrupt"}

RasterWrites(outcome) == outcome \in {"fail_after_write", "ok", "ok_corrupt"}

\* subprocess.run without check=True: only a missing executable raises.
RasterUnchecked(outcome) == outcome # "missing"

\* subprocess.run(..., check=True) returns normally.
RasterExitOk(outcome) == outcome \in {"ok_no_output", "ok", "ok_corrupt"}

\* The page the rasterizer renders from the HTML file it reads.
Render(html, outcome) ==
    IF outcome = "ok_corrupt" \/ html.kind # "html" THEN Corrupt
    ELSE Pdf(<< <<html.inv, 1>> >>)

Rasterize(n, outcome) ==
    LET w == workers[n]
        f1 == IF RasterWrites(outcome)
              THEN [fs EXCEPT !["engine_page"] = Render(fs["html"], outcome)]
              ELSE fs
        failed == outcome \in {"missing", "fail", "fail_after_write"}
                  \/ f1["engine_page"] = Absent
    IN
    /\ w.pc = "raster"
    /\ IF RasterExitOk(outcome)
       THEN /\ fs' = f1
            /\ workers' = [workers EXCEPT ![n].pc = "move", ![n].raster_failed = failed,
                                          ![n].rendered = RasterWrites(outcome)]
       ELSE /\ fs' = CreateFinally(f1)
            /\ workers' = [workers EXCEPT ![n] =
                   [CreateReturns(w, FALSE) EXCEPT !.raster_failed = failed,
                                                   !.rendered = RasterWrites(outcome)]]
    /\ UNCHANGED <<disk_images, cwd_is_engine_dir, uiState, finished_queue, md>>

\* os.rename(<engine dir>/_temp_page.pdf, output_path), then the finally block.
MoveOutput(n, rename_ok) ==
    LET w == workers[n]
        src == fs["engine_page"]
        moved == src # Absent /\ (cwd_is_engine_dir \/ rename_ok)
        f1 == IF moved /\ ~cwd_is_engine_dir
              THEN [fs EXCEPT !["cwd_page"] = src, !["engine_page"] = Absent]
              ELSE fs
    IN
    /\ w.pc = "move"
    /\ fs' = CreateFinally(f1)
    /\ workers' = [workers EXCEPT ![n] = CreateReturns(w, moved)]
    /\ UNCHANGED <<disk_images, cwd_is_engine_dir, uiState, finished_queue, md>>

\* signals.finished.emit(message): queued for the UI thread.
Emit(n, message) ==
    /\ finished_queue' = Append(finished_queue, [inv |-> n, message |-> message])

\* PdfWorker.run after create_pdf_page returned.
AfterCreate(n) ==
    LET w == workers[n] IN
    /\ w.pc = "created"
    /\ IF w.success_create
       THEN /\ workers' = [workers EXCEPT ![n].pc = "merge"]
            /\ UNCHANGED finished_queue
       ELSE /\ Emit(n, CreateErrorMessage)
            /\ workers' = [workers EXCEPT ![n].pc = "cleanup",
                                          ![n].emitted = CreateErrorMessage]
    /\ UNCHANGED <<fs, disk_images, cwd_is_engine_dir, uiState, md>>

\* ----------------------------------------------------------- merge_pdfs
\* A PdfWriter given the new file's pages only.
MergedPagesNewOnly(main_pages, new_pages) == new_pages

\* The page sequence the PdfWriter holds once both readers were added.
MergedPages(main_pages, new_pages) == main_pages \o new_pages

\* The finally block of merge_pdfs.
MergeFinally(f) == RemoveIfExists(f, TempPagePath)

\* merge_pdfs up to and including open(main_pdf_path, "wb"): either the
\* archive is absent and the new page is renamed into place, or both files
\* are read and the archive is opened for writing, which truncates it.
MergeBegin(n, io_ok) ==
    LET w == workers[n]
        main == fs["archive"]
        new == fs[TempPagePath]
        called == [w EXCEPT !.merge_called = TRUE, !.pre = main, !.newp = new]
        returned(ok) == [called EXCEPT !.pc = "merged", !.success_merge = ok]
    IN
    /\ w.pc = "merge"
    /\ IF main = Absent
       THEN IF new # Absent /\ io_ok
            THEN /\ fs' = MergeFinally([fs EXCEPT !["archive"] = new, ![TempPagePath] = Absent])
                 /\ workers' = [workers EXCEPT ![n] = returned(TRUE)]
            ELSE /\ fs' = MergeFinally(fs)
                 /\ workers' = [workers EXCEPT ![n] = returned(FALSE)]
       ELSE IF Readable(main) /\ Readable(new) /\ io_ok
            THEN /\ fs' = [fs EXCEPT !["archive"] = Corrupt]
                 /\ workers' = [workers EXCEPT ![n] =
                        [called EXCEPT !.pc = "merge_write",
                                       !.writer = MergedPages(Pages(main), Pages(new))]]
            ELSE /\ fs' = MergeFinally(fs)
                 /\ workers' = [workers EXCEPT ![n] = returned(FALSE)]
    /\ UNCHANGED <<disk_images, cwd_is_engine_dir, uiState, finished_queue, md>>

\* writer.write(f) on the truncated archive, then the finally block.
MergeWrite(n, write_ok) ==
    LET w == workers[n] IN
    /\ w.pc = "merge_write"
    /\ fs' = MergeFinally(IF write_ok THEN [fs EXCEPT !["archive"] = Pdf(w.writer)] ELSE fs)
    /\ workers' = [workers EXCEPT ![n].pc = "merged", ![n].success_merge = write_ok]
    /\ UNCHANGED <<disk_images, cwd_is_engine_dir, uiState, finished_queue, md>>

\* The message PdfWorker.run emits once merge_pdfs returned.
MergeMessage(success_merge) ==
    IF success_merge THEN SuccessMessage ELSE MergeErrorMessage

AfterMerge(n) ==
    LET w == workers[n] IN
    /\ w.pc = "merged"
    /\ Emit(n, MergeMessage(w.success_merge))
    /\ workers' = [workers EXCEPT ![n].pc = "cleanup",
                                  ![n].emitted = MergeMessage(w.success_merge)]
    /\ UNCHANGED <<fs, disk_images, cwd_is_engine_dir, uiState, md>>

\* One iteration of the finally block of PdfWorker.run over the shared
\* temp_files list: os.remove raises when the file is gone.
ThreadEnd(n, pc) == workers' = [workers EXCEPT ![n].pc = pc, ![n].i = 1]

Cleanup(n) ==
    LET w == workers[n] IN
    /\ w.pc = "cleanup"
    /\ IF w.i > Len(temp_files)
       THEN /\ ThreadEnd(n, "done")
            /\ UNCHANGED disk_images
       ELSE IF temp_files[w.i] \in disk_images
            THEN /\ disk_images' = disk_images \ {temp_files[w.i]}
                 /\ workers' = [workers EXCEPT ![n].i = @ + 1]
            ELSE /\ ThreadEnd(n, "crashed")
                 /\ UNCHANGED disk_images
    /\ UNCHANGED <<fs, cwd_is_engine_dir, uiState, finished_queue, md>>

WorkerStep(n) ==
    \/ \E css_ok \in BOOLEAN : CreateCompose(n, css_ok)
    \/ \E outcome \in RasterOutcomes : Rasterize(n, outcome)
    \/ \E rename_ok \in BOOLEAN : MoveOutput(n, rename_ok)
    \/ AfterCreate(n)
    \/ \E io_ok \in BOOLEAN : MergeBegin(n, io_ok)
    \/ \E write_ok \in BOOLEAN : MergeWrite(n, write_ok)
    \/ AfterMerge(n)
    \/ Cleanup(n)

Next ==
    \/ choose_file
    \/ \E user_text \in Texts, model_text \in Texts : process_and_add_pdf(user_text, model_text)
    \/ on_processing_finished
    \/ paste_image
    \/ \E n \in Invocations : WorkerStep(n)

Spec == Init /\ [][Next]_vars

\* ------------------------------------------------- the page composer alone
\* create_pdf_page as a function of its arguments: the first invocation has
\* just been started on some request, with whatever the user put into the
\* heading fields, the check box and the image list; some listed image may be
\* gone from disk.
PageImages == 1..MaxPageImages

Headings == {"", DefaultUserHeading, "A&B"}

ImageLists ==
    {<<>>} \cup {<<a>> : a \in PageImages}
           \cup {<<a, b>> : a \in PageImages, b \in PageImages}

InitPage ==
    /\ fs = [archive |-> Absent, html |-> Absent, engine_page |-> Absent, cwd_page |-> Absent]
    /\ cwd_is_engine_dir = TRUE
    /\ disk_images \in {PageImages, PageImages \ {1}}
    /\ pdf_path_label = "archive"
    /\ add_button = FALSE
    /\ show_headings_check \in BOOLEAN
    /\ user_heading_entry \in Headings
    /\ model_heading_entry \in Headings
    /\ items \in ImageLists
    /\ temp_files = <<>>
    /\ created_images = 0
    /\ started = 1
    /\ finished_queue = <<>>
    /\ handled = [n \in Invocations |-> 0]
    /\ \E user_text \in {"", "Hello"}, model_text \in {"", "World"} :
          /\ ~(user_text = "" /\ model_text = "")
          /\ workers = [n \in Invocations |->
                          IF n = 1 THEN PdfWorker(user_text, model_text, items)
                          ELSE IdleWorker]
    /\ md = NoMarkdown

NextPage == \E n \in Invocations, css_ok \in BOOLEAN : CreateCompose(n, css_ok)

SpecPage == InitPage /\ [][NextPage]_vars

\* ------------------------------------------------ markdown_to_html_final
\* A text is its lines; "" is a blank line.  A line is plain text, the text
\* CODEBLOCK0 typed by the user, or a whole fenced code block whose content
\* is plain or is the text CODEBLOCK1 ("<fence>x", "<fence>CODEBLOCK1").  HTML is a sequence of tokens, with
\* the word CODEBLOCK and each decimal digit a token of its own, so that
\* str.replace finds exactly the occurrences it finds in the characters.
FenceLines == {"<fence>x", "<fence>CODEBLOCK1"}

MarkdownLines == {"", "x", "CODEBLOCK0"} \cup FenceLines

LineTokens(line) ==
    CASE line = "x" -> <<"x">>
      [] line = "CODEBLOCK0" -> <<"CODEBLOCK", "0">>
      [] OTHER -> <<>>

\* match.group(2).strip() of a fenced block.
FenceContent(line) ==
    IF line = "<fence>CODEBLOCK1" THEN <<"CODEBLOCK", "1">> ELSE <<"x">>

DigitTokens == <<"0", "1", "2", "3", "4", "5", "6", "7", "8", "9">>

RECURSIVE Decimal(_)
Decimal(i) ==
    IF i < 10 THEN <<DigitTokens[i + 1]>>
    ELSE Decimal(i \div 10) \o <<DigitTokens[(i % 10) + 1]>>

\* f"CODEBLOCK{len(highlighted_blocks)}"
Placeholder(i) == <<"CODEBLOCK">> \o Decimal(i)

\* highlight(content, lexer, HtmlFormatter(cssclass="codehilite"))
Highlight(content) == <<"<pre>">> \o content \o <<"</pre>">>

\* The fenced blocks among the first k lines.
FencesBefore(lines, k) == Cardinality({j \in 1..k : lines[j] \in FenceLines})

\* pattern.sub(_highlight_and_replace, markdown_text): every fenced block
\* becomes the placeholder of its index.
TextWithPlaceholders(lines) ==
    [k \in 1..Len(lines) |->
        IF lines[k] \in FenceLines THEN Placeholder(FencesBefore(lines, k - 1))
        ELSE LineTokens(lines[k])]

HighlightedBlocks(lines) ==
    LET fences == SelectSeq(lines, LAMBDA l : l \in FenceLines) IN
    [i \in 1..Len(fences) |-> Highlight(FenceContent(fences[i]))]

\* markdown.markdown with nl2br on rendered lines: blank lines separate
\* paragraphs, each paragraph is wrapped in <p>, its lines joined by <br />.
RECURSIVE MarkdownFrom(_, _, _)
MarkdownFrom(rendered, k, open) ==
    IF k > Len(rendered) THEN (IF open THEN <<"</p>">> ELSE <<>>)
    ELSE IF rendered[k] = <<>>
         THEN (IF open THEN <<"</p>">> ELSE <<>>) \o MarkdownFrom(rendered, k + 1, FALSE)
         ELSE (IF open THEN <<"<br />">> ELSE <<"<p>">>) \o rendered[k]
              \o MarkdownFrom(rendered, k + 1, TRUE)

Markdown(rendered) == MarkdownFrom(rendered, 1, FALSE)

Contains(s, old) ==
    \E k \in 1..(Len(s) - Len(old) + 1) : SubSeq(s, k, k + Len(old) - 1) = old

\* str.replace(old, new): every occurrence, left to right, not overlapping.
RECURSIVE Replace(_, _, _)
Replace(s, old, new) ==
    IF Len(s) < Len(old) THEN s
    ELSE IF SubSeq(s, 1, Len(old)) = old
         THEN new \o Replace(SubSeq(s, Len(old) + 1, Len(s)), old, new)
         ELSE <<s[1]>> \o Replace(Tail(s), old, new)

\* The loop over enumerate(highlighted_blocks), from block i (0-based) on.
RECURSIVE Reinject(_, _, _)
Reinject(html_output, blocks, i) ==
    IF i >= Len(blocks) THEN html_output
    ELSE LET placeholder_p == <<"<p>">> \o Placeholder(i) \o <<"</p>">>
             replaced == IF Contains(html_output, placeholder_p)
                         THEN Replace(html_output, placeholder_p, blocks[i + 1])
                         ELSE Replace(html_output, Placeholder(i), blocks[i + 1])
         IN Reinject(replaced, blocks, i + 1)

MarkdownToHtmlFinal(lines) ==
    Reinject(Markdown(TextWithPlaceholders(lines)), HighlightedBlocks(lines), 0)

\* The texts rendered: every text of at most MaxLines lines, and a text of
\* LongDocBlocks fenced blocks, each a paragraph of its own but for the
\* second, which follows a line of text.
ShortTexts == UNION {[1..len -> MarkdownLines] : len \in 0..MaxLines}

LongText ==
    <<"<fence>x", "", "x", "<fence>x">>
    \o [k \in 1..(2 * (LongDocBlocks - 2)) |-> IF k % 2 = 1 THEN "" ELSE "<fence>x"]

InitMd ==
    /\ fs = [archive |-> Absent, html |-> Absent, engine_page |-> Absent, cwd_page |-> Absent]
    /\ cwd_is_engine_dir = TRUE
    /\ InitWindow
    /\ disk_images = {}
    /\ created_images = 0
    /\ started = 0
    /\ workers = [n \in Invocations |-> IdleWorker]
    /\ md \in {[input |-> t, output |-> <<>>, done |-> FALSE] : t \in ShortTexts \cup {LongText}}

markdown_to_html_final ==
    /\ ~md.done
    /\ md' = [md EXCEPT !.output = MarkdownToHtmlFinal(md.input), !.done = TRUE]
    /\ UNCHANGED <<fs, disk_images, cwd_is_engine_dir, uiState, workers, finished_queue>>

SpecMd == InitMd /\ [][markdown_to_html_final]_vars

\* ---------------------------------------------------------- scheduling
\* Every worker thread keeps running (the rasterizer process terminates) and
\* the UI thread's event loop delivers every queued signal.
FairSpec ==
    /\ Spec
    /\ WF_vars(on_processing_finished)
    /\ \A n \in Invocations : WF_vars(WorkerStep(n))

\* ================================================================ claims
PipelinePcs == {"create", "raster", "move", "created", "merge", "merge_write", "merged"}

AfterEmitPcs == {"cleanup", "done", "crashed"}

\* No invocation is between its start and the end of PdfWorker.run.
Quiescent == \A n \in Invocations : workers[n].pc \in {"idle", "done", "crashed"}

\* C1: append-only archive.  Whenever a call of merge_pdfs has ended,
\* successfully or not, the archive's page sequence has the page sequence it
\* had when the call began as a prefix, and an archive that existed (held
\* pages) still exists (still holds pages).
C1_AppendOnly ==
    \A n \in Invocations :
        workers[n].pc = "merged" =>
            /\ IsPrefix(Pages(workers[n].pre), Pages(fs["archive"]))
            /\ (workers[n].pre # Absent => fs["archive"] # Absent)
            /\ (Pages(workers[n].pre) # <<>> => Pages(fs["archive"]) # <<>>)

\* C2: when merge_pdfs returns True the archive holds exactly the pages it
\* held at the call (none if it was absent), in order, followed by the pages
\* of the new-page file; a one-page new-page file grows it by exactly one.
C2_MergeAppends ==
    \A n \in Invocations :
        LET w == workers[n] IN
        (w.pc = "merged" /\ w.success_merge) =>
            /\ Pages(fs["archive"]) = Pages(w.pre) \o Pages(w.newp)
            /\ fs["archive"] = (IF w.pre = Absent THEN w.newp
                                ELSE Pdf(Pages(w.pre) \o Pages(w.newp)))
            /\ (Len(Pages(w.newp)) = 1 =>
                    Len(Pages(fs["archive"])) = Len(Pages(w.pre)) + 1)

\* C2's case: a one-page file was appended to an archive that held pages.
C2_Witness ==
    \E n \in Invocations :
        /\ workers[n].pc = "merged" /\ workers[n].success_merge
        /\ Len(Pages(workers[n].pre)) >= 1
        /\ Len(Pages(workers[n].newp)) = 1

\* C3: when merge_pdfs returns False the archive file is exactly as it was
\* when the call began: same existence, same content.
C3_FailedMergeLeavesArchive ==
    \A n \in Invocations :
        (workers[n].pc = "merged" /\ ~workers[n].success_merge) =>
            fs["archive"] = workers[n].pre

\* C4: if rasterization failed in an invocation (executable missing, non-zero
\* exit, or exit zero with no file at the output path), create_pdf_page
\* returns False, merge_pdfs is never called, the invocation reports an
\* error, and the archive is as it was when the invocation started.
C4_RasterFailureAborts ==
    \A n \in Invocations :
        LET w == workers[n] IN
        (w.raster_failed /\ w.pc # "move") =>
            /\ ~w.success_create
            /\ ~w.merge_called
            /\ w.pc \in {"created"} \cup AfterEmitPcs
            /\ (w.pc \in AfterEmitPcs => w.emitted = CreateErrorMessage)
            /\ fs["archive"] = w.arch0

\* C4's case: the rasterizer exited zero without an output file, and the
\* invocation has reported its error.
C4_Witness ==
    \E n \in Invocations :
        /\ workers[n].raster_failed /\ ~workers[n].rendered
        /\ workers[n].pc = "cleanup"
        /\ workers[n].emitted = CreateErrorMessage
        /\ Readable(workers[n].arch0)

\* C5: when create_pdf_page has returned, on whichever path, _temp.html
\* does not exist.
C5_NoHtmlAfterCreate ==
    \A n \in Invocations :
        workers[n].pc \in {"created", "merge"} => fs["html"] = Absent

\* C5's case: create_pdf_page returned after _temp.html was written and the
\* rasterizer ran on it.
C5_Witness ==
    \E n \in Invocations : workers[n].pc = "created" /\ workers[n].rendered

\* C6: once every started invocation has run to the end of PdfWorker.run, no
\* temp-page PDF is on disk: neither <engine dir>/_temp_page.pdf nor the
\* worker's temp_page_path.
C6_NoTempPageLeft ==
    Quiescent => (fs["engine_page"] = Absent /\ fs[TempPagePath] = Absent)

\* Invocation n was started and its finished outcome is not handled yet.
InFlight(n) == n <= started /\ handled[n] = 0

\* C9: at most one invocation is between its start and the handling of its
\* finished outcome, and at most one is inside the create_pdf_page /
\* merge_pdfs stages, so the fixed transient files and the archive are never
\* used by two invocations at once.
C9_Serialized ==
    /\ Cardinality({n \in Invocations : InFlight(n)}) <= 1
    /\ Cardinality({n \in Invocations : workers[n].pc \in PipelinePcs}) <= 1
    /\ \A n \in Invocations : workers[n].pc \in PipelinePcs => InFlight(n)

\* C9's case: a second invocation is in its pipeline stages while the thread
\* of the first is still running (in its cleanup loop).
C9_Witness ==
    \E n, m \in Invocations :
        /\ n # m
        /\ workers[n].pc = "cleanup"
        /\ workers[m].pc \in PipelinePcs

\* The finished signals of invocation n, handled or still queued.
Outcomes(n) ==
    handled[n] + Cardinality({k \in 1..Len(finished_queue) : finished_queue[k].inv = n})

\* The message the two return values call for.
ExpectedMessage(w) ==
    IF ~w.success_create THEN CreateErrorMessage
    ELSE IF ~w.success_merge THEN MergeErrorMessage
    ELSE SuccessMessage

\* No invocation has more than one outcome: none before its pipeline ends,
\* one after; and the message is the one its return values call for.
C7_OutcomeSafety ==
    /\ \A n \in Invocations :
        /\ Outcomes(n) <= 1
        /\ workers[n].pc \in PipelinePcs \cup {"idle"} => Outcomes(n) = 0
        /\ workers[n].pc \in AfterEmitPcs => Outcomes(n) = 1
        /\ (workers[n].pc \in AfterEmitPcs /\ handled[n] = 0) =>
               workers[n].emitted = ExpectedMessage(workers[n])
    /\ \A k \in 1..Len(finished_queue) :
        finished_queue[k].message = workers[finished_queue[k].inv].emitted

\* C7: every started invocation eventually has exactly one finished outcome
\* handled by the UI, after which the Add button is enabled again; no
\* invocation ever has more than one outcome; the outcome is the success
\* message exactly when create_pdf_page and merge_pdfs both returned True,
\* and otherwise the error message of the stage that failed.
C7_OneOutcome ==
    /\ []C7_OutcomeSafety
    /\ \A n \in Invocations :
        (workers[n].pc = "create") ~> (handled[n] = 1 /\ add_button)

\* C7's case: the second invocation's outcome has been handled, its thread
\* is still in its cleanup loop, and the button is enabled again.
C7_Witness ==
    /\ started = 2
    /\ handled[2] = 1 /\ add_button
    /\ workers[2].pc = "cleanup"

\* The heading and the content a section is to have.
HeadingOf(text, show, heading) ==
    IF text # "" /\ show /\ heading # ""
    THEN <<[tag |-> "h1", of |-> HtmlEscape(heading)]>> ELSE <<>>

ContentOf(text) == IF text # "" THEN <<[tag |-> "div", of |-> text]>> ELSE <<>>

\* C8: the body written to _temp.html is the user section, then the model
\* section, then one <img> per image path in the order supplied; a section
\* is there exactly when its text is non-empty, and its heading exactly when
\* the section is there, show_headings is true and the heading is non-empty.
C8_BodyLayout ==
    fs["html"] # Absent =>
        LET w == workers[fs["html"].inv]
            body == fs["html"].body
            imgs == SelectSeq(body, LAMBDA e : e.tag = "img")
            text == SelectSeq(body, LAMBDA e : e.tag # "img")
        IN
        /\ body = text \o imgs
        /\ text = HeadingOf(w.user_text, w.show_headings, w.user_heading)
                  \o ContentOf(w.user_text)
                  \o HeadingOf(w.model_text, w.show_headings, w.model_heading)
                  \o ContentOf(w.model_text)
        /\ Len(imgs) = Len(w.image_paths)
        /\ \A k \in 1..Len(imgs) : imgs[k].of = w.image_paths[k]

\* C8's case: user text only, headings shown, two images in a chosen order:
\* a user heading, the user text, no model heading, the images in order.
C8_Witness ==
    /\ fs["html"] # Absent
    /\ workers[1].user_text = "Hello" /\ workers[1].model_text = ""
    /\ workers[1].show_headings /\ workers[1].model_heading # ""
    /\ workers[1].image_paths = <<2, 1>>
    /\ [n \in 1..Len(fs["html"].body) |-> fs["html"].body[n].tag]
           = <<"h1", "div", "img", "img">>

\* Each line rendered on its own, a fenced block as its highlighted HTML.
RenderedDirectly(lines) ==
    [k \in 1..Len(lines) |->
        IF lines[k] \in FenceLines THEN Highlight(FenceContent(lines[k]))
        ELSE LineTokens(lines[k])]

\* Line k is a fenced block between blank lines (or the text's ends).
OwnParagraph(lines, k) ==
    /\ lines[k] \in FenceLines
    /\ (k = 1 \/ lines[k - 1] = "")
    /\ (k = Len(lines) \/ lines[k + 1] = "")

\* The HTML with every block in its own place: a block that is a paragraph
\* of its own stands in place of the paragraph, any other in its line.
RECURSIVE ExpectedFrom(_, _, _)
ExpectedFrom(lines, k, open) ==
    IF k > Len(lines) THEN (IF open THEN <<"</p>">> ELSE <<>>)
    ELSE IF lines[k] = ""
         THEN (IF open THEN <<"</p>">> ELSE <<>>) \o ExpectedFrom(lines, k + 1, FALSE)
    ELSE IF OwnParagraph(lines, k)
         THEN RenderedDirectly(lines)[k] \o ExpectedFrom(lines, k + 1, FALSE)
    ELSE (IF open THEN <<"<br />">> ELSE <<"<p>">>) \o RenderedDirectly(lines)[k]
         \o ExpectedFrom(lines, k + 1, TRUE)

\* C10: the output of markdown_to_html_final holds each fenced block's
\* highlighted HTML exactly once, in the block's own place, no placeholder
\* the function introduced remains, and text outside the blocks (and the
\* content of the blocks) is as the user wrote it.
C10_NoPlaceholderCollision ==
    md.done => md.output = ExpectedFrom(md.input, 1, FALSE)

\* The invocations whose HTML the pages of a file were rendered from.
PageOrigins(content) == {Pages(content)[k][1] : k \in 1..Len(Pages(content))}

\* C11: a page that an invocation appends to the archive is the page the
\* rasterizer rendered during that same invocation: when merge_pdfs has
\* returned True in invocation n, every page of the new-page file it took
\* was rendered from invocation n's HTML, never a _temp_page.pdf left over
\* from an earlier invocation.
C11_OwnPageMerged ==
    \A n \in Invocations :
        LET w == workers[n] IN
        (w.pc = "merged" /\ w.success_merge) => PageOrigins(w.newp) \subseteq {n}

\* The paths the image widget holds: its items and its temp_files.
HeldPaths(list, temps) ==
    {list[k] : k \in 1..Len(list)} \cup {temps[k] : k \in 1..Len(temps)}

\* C12: whenever an invocation starts, every temp image path the image
\* widget still holds (in its items and in temp_files) is a file on disk,
\* and the cleanup of PdfWorker.run never finds a file it is to delete
\* already gone.
C12_NoDanglingTempImage ==
    [][/\ (started' = started + 1 => HeldPaths(items', temp_files') \subseteq disk_images')
       /\ \A n \in Invocations : workers'[n].pc # "crashed"]_vars

====
